---- MODULE Spec2Model ----
(***************************************************************************)
(* Model of CinosBeverageSystem.py: the Drink and Order classes.           *)
(*                                                                         *)
(* Python values are modelled as strings.  None is the distinguished value *)
(* None below; str(None) is "None" (PyStr).  A Drink or an Order object is *)
(* named by its identity ("d1", "o1").  Money is kept in hundredths of a   *)
(* dollar, so 5.00 is 500 and the ":.2f" formatting is Format2f.           *)
(* A call that raises records which raise statement was reached:           *)
(*   AlreadySet   line 48      InvalidValue line 50 / line 63              *)
(*   Duplicate    line 65      TypeMismatch line 142    OutOfRange line 155*)
(***************************************************************************)
EXTENDS Integers, Sequences, FiniteSets, TLC

VARIABLES base, flavors, items, nAdded, nRemoved, last

vars == <<base, flavors, items, nAdded, nRemoved, last>>

\* ------------------------------------------------------------------ bounds

\* longest argument handed to set_flavors
MaxLen == 3
\* most drinks an Order holds
MaxItems == 3
\* most successful add_item calls counted per Order
MaxCalls == 4

\* ------------------------------------------------------------- the objects

None == "<None>"

Drinks == {"d1", "d2"}
Orders == {"o1", "o2"}
\* the Drink the Drink-level behaviours follow
Subject == "d1"
\* values that are not Drink instances
NonDrinks == {"not a drink", None, "o1"}

valid_bases == <<"water", "sbrite", "pokeacola", "Mr. Salt", "hill fog", "leaf wine">>
valid_flavors == <<"lemon", "cherry", "strawberry", "mint", "blueberry", "lime">>

\* x in lst, for a Python list
In(x, lst) == \E i \in 1..Len(lst) : lst[i] = x

\* arguments tried
BaseInputs == {valid_bases[i] : i \in 1..Len(valid_bases)} \cup {"cola", "lemon", None}
FlavorInputs == {valid_flavors[i] : i \in 1..Len(valid_flavors)} \cup {"grape", "water"}
SeqInputs == {"lemon", "cherry", "mint", "grape"}
FlavorSeqs == UNION {[1..n -> SeqInputs] : n \in 0..MaxLen}
SmallBaseInputs == {"water", "cola"}
SmallFlavorInputs == {"lemon", "mint", "grape"}
IndexInputs == -1..(MaxItems + 1)

isinstance_Drink(x) == x \in Drinks

Call(op, obj, arg, err, ret) == [op |-> op, obj |-> obj, arg |-> arg, err |-> err, ret |-> ret]

\* -------------------------------------------------------------------- Drink

get_base(d) == base[d]

get_num_flavors(d) == Cardinality(flavors[d])

\* list(self._flavors): the set's elements in an order the caller cannot rely on
get_flavors(d) ==
    {s \in [1..Cardinality(flavors[d]) -> flavors[d]] :
        \A i, j \in DOMAIN s : i # j => s[i] # s[j]}

add_base_checks_value_first(d, b) ==
    /\ IF ~In(b, valid_bases)
       THEN /\ last' = Call("add_base", d, b, "InvalidValue", <<>>)
            /\ UNCHANGED base
       ELSE IF base[d] # None
       THEN /\ last' = Call("add_base", d, b, "AlreadySet", <<>>)
            /\ UNCHANGED base
       ELSE /\ base' = [base EXCEPT ![d] = b]
            /\ last' = Call("add_base", d, b, "ok", <<>>)
    /\ UNCHANGED <<flavors, items, nAdded, nRemoved>>

add_base_no_validation(d, b) ==
    /\ IF base[d] # None
       THEN /\ last' = Call("add_base", d, b, "AlreadySet", <<>>)
            /\ UNCHANGED base
       ELSE /\ base' = [base EXCEPT ![d] = b]
            /\ last' = Call("add_base", d, b, "ok", <<>>)
    /\ UNCHANGED <<flavors, items, nAdded, nRemoved>>

add_base(d, b) ==
    /\ IF base[d] # None
       THEN /\ last' = Call("add_base", d, b, "AlreadySet", <<>>)
            /\ UNCHANGED base
       ELSE IF ~In(b, valid_bases)
       THEN /\ last' = Call("add_base", d, b, "InvalidValue", <<>>)
            /\ UNCHANGED base
       ELSE /\ base' = [base EXCEPT ![d] = b]
            /\ last' = Call("add_base", d, b, "ok", <<>>)
    /\ UNCHANGED <<flavors, items, nAdded, nRemoved>>

\* the body of add_flavor on a flavor set fs: the set it leaves and how it ends
flavor_added_silently(fs, f) ==
    IF ~In(f, valid_flavors) THEN [flavors |-> fs, err |-> "InvalidValue"]
    ELSE [flavors |-> fs \cup {f}, err |-> "ok"]

flavor_added_unvalidated(fs, f) ==
    IF f \in fs THEN [flavors |-> fs, err |-> "Duplicate"]
    ELSE [flavors |-> fs \cup {f}, err |-> "ok"]

flavor_added(fs, f) ==
    IF ~In(f, valid_flavors) THEN [flavors |-> fs, err |-> "InvalidValue"]
    ELSE IF f \in fs THEN [flavors |-> fs, err |-> "Duplicate"]
    ELSE [flavors |-> fs \cup {f}, err |-> "ok"]

add_flavor(d, f) ==
    LET r == flavor_added(flavors[d], f) IN
    /\ flavors' = [flavors EXCEPT ![d] = r.flavors]
    /\ last' = Call("add_flavor", d, f, r.err, <<>>)
    /\ UNCHANGED <<base, items, nAdded, nRemoved>>

\* the loop of set_flavors from element i on: the first raise ends it
RECURSIVE flavors_added(_, _, _)
flavors_added(fs, seq, i) ==
    IF i > Len(seq) THEN [flavors |-> fs, err |-> "ok"]
    ELSE LET r == flavor_added(fs, seq[i]) IN
         IF r.err # "ok" THEN r ELSE flavors_added(r.flavors, seq, i + 1)

set_flavors_keeps_old(d, seq) ==
    LET r == flavors_added(flavors[d], seq, 1) IN
    /\ flavors' = [flavors EXCEPT ![d] = r.flavors]
    /\ last' = Call("set_flavors", d, seq, r.err, <<>>)
    /\ UNCHANGED <<base, items, nAdded, nRemoved>>

set_flavors(d, seq) ==
    LET r == flavors_added({}, seq, 1) IN
    /\ flavors' = [flavors EXCEPT ![d] = r.flavors]
    /\ last' = Call("set_flavors", d, seq, r.err, <<>>)
    /\ UNCHANGED <<base, items, nAdded, nRemoved>>

\* -------------------------------------------------------------------- Order

\* price_per_drink = 5.00, in hundredths
price_per_drink == 500

get_items(o) == items[o]

get_num_items(o) == Len(items[o])

get_total_per_flavor(o) ==
    LET n[k \in 0..Len(items[o])] ==
            IF k = 0 THEN 0 ELSE n[k - 1] + get_num_flavors(items[o][k])
    IN n[Len(items[o])] * price_per_drink

get_total(o) == Len(items[o]) * price_per_drink

\* str(v) of a base
PyStr(v) == IF v = None THEN "None" ELSE v

\* sep.join(seq)
RECURSIVE join(_, _)
join(sep, seq) ==
    IF Len(seq) = 0 THEN ""
    ELSE IF Len(seq) = 1 THEN seq[1]
    ELSE seq[1] \o sep \o join(sep, Tail(seq))

\* f"{c:.2f}" of an amount of c hundredths
Format2f(c) ==
    ToString(c \div 100) \o "." \o ToString((c % 100) \div 10) \o ToString(c % 10)

\* the line of the idx-th drink d, fl being get_flavors() of it
receipt_line(idx, d, fl) ==
    ToString(idx) \o ". Base: " \o PyStr(get_base(d)) \o ", Flavors: "
        \o (IF join(", ", fl) = "" THEN "None" ELSE join(", ", fl))

\* the lines get_receipt joins with "\n"; no line holds a "\n" of its own.
\* fl gives the order in which each drink's get_flavors() lists its flavors.
receipt_numbered_from_zero(o, fl) ==
    IF Len(items[o]) = 0 THEN <<"Order is empty. Add some drinks!">>
    ELSE <<"--- Order Receipt ---">>
         \o [k \in 1..Len(items[o]) |-> receipt_line(k - 1, items[o][k], fl[items[o][k]])]
         \o <<"Total Drinks: " \o ToString(get_num_items(o)),
              "Total Cost: $" \o Format2f(get_total(o))>>

receipt(o, fl) ==
    IF Len(items[o]) = 0 THEN <<"Order is empty. Add some drinks!">>
    ELSE <<"--- Order Receipt ---">>
         \o [k \in 1..Len(items[o]) |-> receipt_line(k, items[o][k], fl[items[o][k]])]
         \o <<"Total Drinks: " \o ToString(get_num_items(o)),
              "Total Cost: $" \o Format2f(get_total(o))>>

FlavorOrders ==
    {fl \in [Drinks -> UNION {get_flavors(d) : d \in Drinks}] :
        \A d \in Drinks : fl[d] \in get_flavors(d)}

get_receipt(o) ==
    /\ \E fl \in FlavorOrders : last' = Call("get_receipt", o, None, "ok", receipt(o, fl))
    /\ UNCHANGED <<base, flavors, items, nAdded, nRemoved>>

add_item_unchecked(o, x) ==
    /\ items' = [items EXCEPT ![o] = Append(@, x)]
    /\ nAdded' = [nAdded EXCEPT ![o] = @ + 1]
    /\ last' = Call("add_item", o, x, "ok", <<>>)
    /\ UNCHANGED <<base, flavors, nRemoved>>

add_item_twice(o, x) ==
    /\ IF ~isinstance_Drink(x)
       THEN /\ last' = Call("add_item", o, x, "TypeMismatch", <<>>)
            /\ UNCHANGED <<items, nAdded>>
       ELSE /\ items' = [items EXCEPT ![o] = Append(Append(@, x), x)]
            /\ nAdded' = [nAdded EXCEPT ![o] = @ + 1]
            /\ last' = Call("add_item", o, x, "ok", <<>>)
    /\ UNCHANGED <<base, flavors, nRemoved>>

add_item(o, x) ==
    /\ IF ~isinstance_Drink(x)
       THEN /\ last' = Call("add_item", o, x, "TypeMismatch", <<>>)
            /\ UNCHANGED <<items, nAdded>>
       ELSE /\ items' = [items EXCEPT ![o] = Append(@, x)]
            /\ nAdded' = [nAdded EXCEPT ![o] = @ + 1]
            /\ last' = Call("add_item", o, x, "ok", <<>>)
    /\ UNCHANGED <<base, flavors, nRemoved>>

\* list.pop(i) for 0 <= i < len: the list it leaves
pop(s, i) == [k \in 1..(Len(s) - 1) |-> IF k <= i THEN s[k] ELSE s[k + 1]]

remove_item_no_lower_check(o, i) ==
    /\ IF i >= Len(items[o])
       THEN /\ last' = Call("remove_item", o, i, "OutOfRange", <<>>)
            /\ UNCHANGED <<items, nRemoved>>
       ELSE /\ items' = [items EXCEPT ![o] =
                            pop(@, IF i < 0 THEN Len(items[o]) + i ELSE i)]
            /\ nRemoved' = [nRemoved EXCEPT ![o] = @ + 1]
            /\ last' = Call("remove_item", o, i, "ok", <<>>)
    /\ UNCHANGED <<base, flavors, nAdded>>

remove_item(o, i) ==
    /\ IF i < 0 \/ i >= Len(items[o])
       THEN /\ last' = Call("remove_item", o, i, "OutOfRange", <<>>)
            /\ UNCHANGED <<items, nRemoved>>
       ELSE /\ items' = [items EXCEPT ![o] = pop(@, i)]
            /\ nRemoved' = [nRemoved EXCEPT ![o] = @ + 1]
            /\ last' = Call("remove_item", o, i, "ok", <<>>)
    /\ UNCHANGED <<base, flavors, nAdded>>

\* ------------------------------------------------------------ specifications

Init ==
    /\ base = [d \in Drinks |-> None]
    /\ flavors = [d \in Drinks |-> {}]
    /\ items = [o \in Orders |-> <<>>]
    /\ nAdded = [o \in Orders |-> 0]
    /\ nRemoved = [o \in Orders |-> 0]
    /\ last = Call("new", None, None, "ok", <<>>)

\* one Drink under every call of its interface
NextDrink ==
    \/ \E b \in BaseInputs : add_base(Subject, b)
    \/ \E f \in FlavorInputs : add_flavor(Subject, f)
    \/ \E seq \in FlavorSeqs : set_flavors(Subject, seq)

SpecDrink == Init /\ [][NextDrink]_vars

\* Orders under every call that changes them, with Drink and non-Drink
\* arguments
NextOrder ==
    \/ \E o \in Orders, x \in Drinks \cup NonDrinks :
        /\ isinstance_Drink(x) => (Len(items[o]) < MaxItems /\ nAdded[o] < MaxCalls)
        /\ add_item(o, x)
    \/ \E o \in Orders, i \in IndexInputs : remove_item(o, i)

SpecOrder == Init /\ [][NextOrder]_vars

\* the Order whose receipts are read
Till == "o1"

\* one Order and its receipts, its Drinks being composed before and after
\* they are added
NextReceipt ==
    \/ \E d \in Drinks, b \in SmallBaseInputs : add_base(d, b)
    \/ \E d \in Drinks, f \in SmallFlavorInputs : add_flavor(d, f)
    \/ \E x \in Drinks :
        /\ Len(items[Till]) < MaxItems /\ nAdded[Till] < MaxCalls
        /\ add_item(Till, x)
    \/ \E i \in IndexInputs : remove_item(Till, i)
    \/ get_receipt(Till)

SpecReceipt == Init /\ [][NextReceipt]_vars

\* ------------------------------------------------------ claims about Drink

SixBases == {"water", "sbrite", "pokeacola", "Mr. Salt", "hill fog", "leaf wine"}
SixFlavors == {"lemon", "cherry", "strawberry", "mint", "blueberry", "lime"}

\* C1: the base is set once.  While the base is unset, an add_base call with
\* a valid value succeeds and assigns it; once the base is set no call of any
\* kind changes it, and every add_base call, valid argument or not, ends in
\* AlreadySet.
C1_BaseSetOnce ==
    [][\A d \in Drinks :
        /\ (base[d] = None /\ last'.op = "add_base" /\ last'.obj = d
                /\ last'.arg \in SixBases)
            => (last'.err = "ok" /\ get_base(d)' = last'.arg)
        /\ base[d] # None
            => /\ get_base(d)' = base[d]
               /\ (last'.op = "add_base" /\ last'.obj = d)
                    => last'.err = "AlreadySet"]_vars

\* C1 happens: a second add_base, with another valid value, was refused and
\* the first value is still the base.
C1_Witness ==
    /\ last.op = "add_base" /\ last.err = "AlreadySet"
    /\ last.arg \in SixBases
    /\ base[last.obj] \in SixBases /\ base[last.obj] # last.arg

\* C2: add_base with a value that is not one of the six bases, on a Drink whose
\* base is unset, ends in InvalidValue and leaves the base unset and the
\* flavors as they were.
C2_InvalidBaseRejected ==
    [][\A d \in Drinks :
        (last'.op = "add_base" /\ last'.obj = d /\ base[d] = None
            /\ last'.arg \notin SixBases)
        => /\ last'.err = "InvalidValue"
           /\ base'[d] = None
           /\ flavors' = flavors]_vars

\* C2 happens: an invalid base was refused on a Drink that has flavors and no
\* base.
C2_Witness ==
    /\ last.op = "add_base" /\ last.err = "InvalidValue"
    /\ base[last.obj] = None
    /\ flavors[last.obj] # {}

\* the length of the longest prefix of seq whose elements are valid flavors and
\* pairwise distinct
GoodPrefix(seq, n) ==
    /\ \A i \in 1..n : seq[i] \in SixFlavors
    /\ \A i, j \in 1..n : i # j => seq[i] # seq[j]
GoodPrefixLen(seq) ==
    CHOOSE n \in 0..Len(seq) :
        GoodPrefix(seq, n) /\ \A m \in (n + 1)..Len(seq) : ~GoodPrefix(seq, m)

\* C3: after set_flavors(seq) the flavors are exactly the elements of the
\* longest prefix of seq that is all valid and pairwise distinct; the call
\* succeeds when that prefix is all of seq, and otherwise ends in the error of
\* the element after the prefix (InvalidValue if it is no flavor, Duplicate if
\* it repeats one), with the prefix kept.
C3_SetFlavorsPrefix ==
    last.op = "set_flavors" =>
        LET seq == last.arg
            p == GoodPrefixLen(seq)
        IN /\ flavors[last.obj] = {seq[i] : i \in 1..p}
           /\ p = Len(seq) => last.err = "ok"
           /\ p < Len(seq) =>
                last.err = IF seq[p + 1] \notin SixFlavors THEN "InvalidValue"
                           ELSE "Duplicate"

\* C3 happens: a set_flavors call failed on a duplicate in the middle of its
\* argument, keeping what it had added and not the elements after it.
C3_Witness ==
    /\ last.op = "set_flavors" /\ last.err = "Duplicate"
    /\ Len(last.arg) = 3 /\ GoodPrefixLen(last.arg) = 1
    /\ last.arg[3] \in SixFlavors /\ last.arg[3] # last.arg[1]
    /\ flavors[last.obj] = {last.arg[1]}

\* C4: in every reachable state the base is unset or one of the six bases,
\* every flavor is one of the six flavors, and get_num_flavors() is in 0..6.
C4_DrinkInvariant ==
    \A d \in Drinks :
        /\ get_base(d) \in SixBases \cup {None}
        /\ flavors[d] \subseteq SixFlavors
        /\ get_num_flavors(d) \in 0..6

\* C4 happens: a Drink with a base and all six flavors, right after a call
\* that failed.
C4_Witness ==
    /\ last.err # "ok"
    /\ base[last.obj] \in SixBases
    /\ get_num_flavors(last.obj) = 6

\* C5: add_flavor with a valid flavor the Drink already has ends in Duplicate
\* and leaves the flavors, their number and the base as they were.
C5_DuplicateFlavorRejected ==
    [][\A d \in Drinks :
        (last'.op = "add_flavor" /\ last'.obj = d /\ last'.arg \in SixFlavors
            /\ last'.arg \in flavors[d])
        => /\ last'.err = "Duplicate"
           /\ flavors' = flavors
           /\ get_num_flavors(d)' = get_num_flavors(d)
           /\ base' = base]_vars

\* C5 happens: a flavor was refused as a duplicate on a Drink with several
\* flavors.
C5_Witness ==
    /\ last.op = "add_flavor" /\ last.err = "Duplicate"
    /\ last.arg \in flavors[last.obj]
    /\ get_num_flavors(last.obj) >= 2

\* ------------------------------------------------------ claims about Order

\* C6: in every reachable state of every Order, get_num_items() is the number
\* of successful add_item calls minus the number of successful remove_item
\* calls, get_total() is 5.00 times that number, and an empty Order has count
\* 0 and total 0.00.
C6_TotalAndCount ==
    \A o \in Orders :
        /\ get_num_items(o) = nAdded[o] - nRemoved[o]
        /\ get_total(o) = 500 * (nAdded[o] - nRemoved[o])
        /\ get_items(o) = <<>> => (get_total(o) = 0 /\ get_num_items(o) = 0)

\* C6 happens: an Order that has seen successful adds, a successful remove and
\* now a failed call still holds drinks.
C6_Witness ==
    /\ last.op \in {"add_item", "remove_item"} /\ last.err # "ok"
    /\ nAdded[last.obj] >= 3 /\ nRemoved[last.obj] >= 1
    /\ get_num_items(last.obj) = 2 /\ get_total(last.obj) = 1000

\* C7: remove_item(i) with i < 0 or i >= count ends in OutOfRange and leaves
\* every Order's items as they were; with 0 <= i < count it succeeds and leaves
\* the items before position i followed by the items after it, in their order,
\* other Orders untouched.
C7_RemoveItem ==
    [][\A o \in Orders :
        (last'.op = "remove_item" /\ last'.obj = o) =>
            LET i == last'.arg
                s == items[o]
            IN IF i < 0 \/ i >= Len(s)
               THEN last'.err = "OutOfRange" /\ items' = items
               ELSE /\ last'.err = "ok"
                    /\ items'[o] = SubSeq(s, 1, i) \o SubSeq(s, i + 2, Len(s))
                    /\ \A q \in Orders \ {o} : items'[q] = items[q]]_vars

\* C7 happens: remove_item(count) was refused on an Order that holds drinks.
C7_Witness ==
    /\ last.op = "remove_item" /\ last.err = "OutOfRange"
    /\ last.arg = get_num_items(last.obj)
    /\ get_num_items(last.obj) >= 2

\* C8: every element of every Order's items is a Drink instance; add_item of
\* a value that is no Drink ends in TypeMismatch and leaves the items as they
\* were, and add_item of a Drink succeeds and leaves the previous items with
\* the Drink appended.
C8_OnlyDrinks ==
    /\ [](\A o \in Orders : \A k \in 1..Len(items[o]) : items[o][k] \in Drinks)
    /\ [][\A o \in Orders :
            (last'.op = "add_item" /\ last'.obj = o) =>
                IF last'.arg \in Drinks
                THEN /\ last'.err = "ok"
                     /\ items' = [items EXCEPT ![o] = items[o] \o <<last'.arg>>]
                ELSE last'.err = "TypeMismatch" /\ items' = items]_vars

\* C8 happens: a value that is no Drink was refused by an Order that holds
\* drinks.
C8_Witness ==
    /\ last.op = "add_item" /\ last.err = "TypeMismatch"
    /\ last.arg \notin Drinks
    /\ get_num_items(last.obj) >= 1

\* the positions of the Orders' items
Positions == UNION {{<<o, k>> : k \in 1..Len(items[o])} : o \in Orders}

\* the Drinks some Order holds
HeldNow == {items[p[1]][p[2]] : p \in Positions}

\* C9 as stated: no Drink instance occupies two positions, of one Order or of
\* two.
C9_Exclusive ==
    \A p, q \in Positions : items[p[1]][p[2]] = items[q[1]][q[2]] => p = q

\* C9 amended: Order does not enforce exclusive ownership, but every call
\* other than a successful add_item of a Drink that some Order already holds
\* keeps it: if no Drink occupies two positions before such a call, none does
\* after it.
C9_ExclusiveUnlessReAdded ==
    [][(C9_Exclusive
            /\ ~(last'.op = "add_item" /\ last'.err = "ok" /\ last'.arg \in HeldNow))
        => C9_Exclusive']_vars

\* C9 amended happens: two Orders hold one distinct Drink each, the second
\* just added.
C9_Witness ==
    /\ C9_Exclusive
    /\ last.op = "add_item" /\ last.err = "ok"
    /\ \A o \in Orders : get_num_items(o) = 1

\* the flavors of a receipt line: 'None', or the flavors with ", " between
CommaList(fl) ==
    LET acc[k \in 0..Len(fl)] ==
            IF k = 0 THEN ""
            ELSE IF k = 1 THEN fl[1]
            ELSE acc[k - 1] \o ", " \o fl[k]
    IN IF Len(fl) = 0 THEN "None" ELSE acc[Len(fl)]

\* C10: get_receipt() of an empty Order is the empty-order message; of an Order
\* of n >= 1 drinks it is n + 3 lines: the header, for k = 1..n the line
\* numbered k with the k-th drink's current base ("None" when unset) and its
\* current flavors in some order ('None' when it has none), the total-drinks
\* line with n and the total-cost line with 5 n to two decimals.
C10_Receipt ==
    last.op = "get_receipt" =>
        LET o == last.obj
            n == Len(items[o])
            r == last.ret
        IN IF n = 0 THEN r = <<"Order is empty. Add some drinks!">>
           ELSE /\ Len(r) = n + 3
                /\ r[1] = "--- Order Receipt ---"
                /\ \A k \in 1..n :
                    LET d == items[o][k] IN
                    \E fl \in get_flavors(d) :
                        r[k + 1] = ToString(k) \o ". Base: "
                            \o (IF base[d] \in SixBases THEN base[d] ELSE "None")
                            \o ", Flavors: " \o CommaList(fl)
                /\ r[n + 2] = "Total Drinks: " \o ToString(n)
                /\ r[n + 3] = "Total Cost: $" \o ToString(5 * n) \o ".00"

\* C10 happens: the receipt of three drinks, one with a base and two flavors,
\* one with neither.
C10_Witness ==
    /\ last.op = "get_receipt"
    /\ Len(last.ret) = 6
    /\ \E k \in 1..3 : base[items[last.obj][k]] # None
                        /\ get_num_flavors(items[last.obj][k]) = 2
    /\ \E k \in 1..3 : base[items[last.obj][k]] = None
                        /\ get_num_flavors(items[last.obj][k]) = 0

====
